---- MODULE Spec2Model ----
(***************************************************************************)
(* Model of app.py, the exchange-rate monitor: the two bank quote          *)
(* providers of BankRateFetcher, the cached time-series call get_history,  *)
(* the trend arithmetic, and the script's run/rerun cycle per browser      *)
(* session.                                                                 *)
(*                                                                         *)
(* Python values are records tagged by "kind".  A call either returns a    *)
(* value or raises; both outcomes are records too, so that a try/except    *)
(* is an operator on outcomes.  Text is a tuple of characters (each        *)
(* character a short token: the two ideographs of a currency name are two  *)
(* tokens), so that `in` is a real substring test and strip() really       *)
(* removes blanks.                                                          *)
(***************************************************************************)
EXTENDS Integers, Sequences, FiniteSets, TLC

VARIABLES now, cache, sess, arg, ret

vars == <<now, cache, sess, arg, ret>>

-----------------------------------------------------------------------------
(* Bounds of the model.                                                    *)

MaxRows   == 2
MaxTables == 2
MaxItems  == 2
MaxLen    == 3
MaxPrice  == 3
MaxNow    == 60
MaxRuns   == 3
TickSecs  == 30

-----------------------------------------------------------------------------
(* Python values and call outcomes.                                        *)

None == [kind |-> "None"]

Str(cs) == [kind |-> "str", chars |-> cs]

Dict(f) == [kind |-> "dict", items |-> f]

List(s) == [kind |-> "list", elems |-> s]

Returned(v) == [kind |-> "return", value |-> v]

Raised(e) == [kind |-> "raise", exc |-> e]

(* bool(v) as `if not v` evaluates it *)
Truthy(v) ==
    CASE v.kind = "None" -> FALSE
      [] v.kind = "str"  -> Len(v.chars) > 0
      [] v.kind = "list" -> Len(v.elems) > 0
      [] v.kind = "dict" -> DOMAIN v.items # {}
      [] OTHER           -> TRUE

(* t occurs in s as a contiguous run of characters *)
Contains(t, s) ==
    \E i \in 1..(Len(s) + 1) :
        /\ i + Len(t) - 1 <= Len(s)
        /\ SubSeq(s, i, i + Len(t) - 1) = t

RECURSIVE LStrip(_)
LStrip(s) == IF s # <<>> /\ Head(s) = " " THEN LStrip(Tail(s)) ELSE s

RECURSIVE RStrip(_)
RStrip(s) ==
    IF s # <<>> /\ s[Len(s)] = " " THEN RStrip(SubSeq(s, 1, Len(s) - 1)) ELSE s

(* str.strip() *)
Strip(s) == RStrip(LStrip(s))

(* d.get(k, default) on a dict *)
DictGet(d, k, default) == IF k \in DOMAIN d.items THEN d.items[k] ELSE default

(* the bare `except: return None` around a provider's body *)
CatchAllNoCatch(outcome) == outcome

CatchAll(outcome) == IF outcome.kind = "raise" THEN Returned(None) ELSE outcome

-----------------------------------------------------------------------------
(* BankRateFetcher                                                          *)

Codes == {"EUR", "USD", "HKD", "GBP", "JPY"}

currency_map ==
    [c \in Codes |->
        CASE c = "EUR" -> Str(<<"ou", "yuan">>)
          [] c = "USD" -> Str(<<"mei", "yuan">>)
          [] c = "HKD" -> Str(<<"gang", "bi">>)
          [] c = "GBP" -> Str(<<"ying", "bang">>)
          [] c = "JPY" -> Str(<<"ri", "yuan">>)]

(* self.currency_map.get(currency_code) *)
CurrencyMapGet(code) == IF code \in DOMAIN currency_map THEN currency_map[code] ELSE None

RECURSIVE Flatten(_)
Flatten(tables) ==
    IF tables = <<>> THEN <<>> ELSE Head(tables) \o Flatten(Tail(tables))

(* the two nested loops of get_boc_rates over the rows, in document order;  *)
(* a row is the tuple of its td cells' text                                 *)
RECURSIVE ScanRows(_, _)
ScanRows(rows, target_name) ==
    IF rows = <<>> THEN Returned(None)
    ELSE LET cols == Head(rows) IN
         IF Len(cols) > 0 /\ Contains(target_name.chars, Strip(cols[1]))
         THEN IF Len(cols) >= 5
              THEN Returned(Dict([k \in {"spot_sell", "cash_sell"} |->
                        IF k = "spot_sell" THEN Str(Strip(cols[4]))
                                           ELSE Str(Strip(cols[5]))]))
              ELSE Raised("IndexError")
         ELSE ScanRows(Tail(rows), target_name)

(* the try block of get_boc_rates *)
BocBody(response, currency_code) ==
    IF response.transport # "ok" THEN Raised("RequestException")
    ELSE LET target_name == CurrencyMapGet(currency_code) IN
         IF ~Truthy(target_name) THEN Returned(None)
         ELSE ScanRows(Flatten(response.tables), target_name)

get_boc_rates(response, currency_code) == CatchAll(BocBody(response, currency_code))

(* x in c, as Python evaluates it: "yes", "no" or "TypeError" *)
PyIn(x, c) ==
    CASE c.kind = "dict" ->
            IF x.kind = "str" /\ Len(x.chars) = 1 /\ x.chars[1] \in DOMAIN c.items
            THEN "yes" ELSE "no"
      [] c.kind = "list" ->
            IF \E i \in 1..Len(c.elems) : c.elems[i] = x THEN "yes" ELSE "no"
      [] c.kind = "str" ->
            IF x.kind # "str" THEN "TypeError"
            ELSE IF Contains(x.chars, c.chars) THEN "yes" ELSE "no"
      [] OTHER -> "TypeError"

(* the loop of get_cmb_rates over data['body'] *)
RECURSIVE ScanItems(_, _)
ScanItems(items, target_name) ==
    IF items = <<>> THEN Returned(None)
    ELSE LET item == Head(items) IN
         IF item.kind # "dict" THEN Raised("AttributeError")
         ELSE LET found == PyIn(target_name, DictGet(item, "ccyNbr", Str(<<>>))) IN
              CASE found = "TypeError" -> Raised("TypeError")
                [] found = "yes" ->
                     Returned(Dict([k \in {"spot_sell", "cash_sell"} |->
                        IF k = "spot_sell"
                        THEN DictGet(item, "rthOfr", Str(<<"N/A">>))
                        ELSE DictGet(item, "rtcOfr", Str(<<"N/A">>))]))
                [] OTHER -> ScanItems(Tail(items), target_name)

(* the elements of a finite set, in some fixed order *)
SetToSeq(S) ==
    CHOOSE f \in [1..Cardinality(S) -> S] : \A i, j \in DOMAIN f : f[i] = f[j] => i = j

(* `for item in body`: the elements a Python value iterates over *)
IterOf(v) ==
    CASE v.kind = "list" -> Returned(v.elems)
      [] v.kind = "dict" ->
            LET keys == SetToSeq(DOMAIN v.items)
            IN  Returned([i \in DOMAIN keys |-> Str(<<keys[i]>>)])
      [] v.kind = "str"  -> Returned([i \in 1..Len(v.chars) |-> Str(<<v.chars[i]>>)])
      [] OTHER           -> Raised("TypeError")

(* the try block of get_cmb_rates; response.json is the decoded body, or   *)
(* a value of kind "invalid" when response.json() raises                   *)
CmbBody(response, currency_code) ==
    IF response.transport # "ok" THEN Raised("RequestException")
    ELSE IF response.status_code # 200 THEN Returned(None)
    ELSE IF response.json.kind = "invalid" THEN Raised("JSONDecodeError")
    ELSE LET data        == response.json
             target_name == CurrencyMapGet(currency_code)
             hasBody     == PyIn(Str(<<"body">>), data)
         IN  CASE hasBody = "TypeError" -> Raised("TypeError")
               [] hasBody = "no" -> Returned(None)
               [] OTHER ->
                    IF data.kind # "dict" THEN Raised("TypeError")
                    ELSE LET it == IterOf(data.items["body"]) IN
                         IF it.kind = "raise" THEN it
                         ELSE ScanItems(it.value, target_name)

get_cmb_rates(response, currency_code) == CatchAll(CmbBody(response, currency_code))

-----------------------------------------------------------------------------
(* Responses and arguments the providers are called with.                 *)

Pending == [kind |-> "pending"]

CodesTried == Codes \cup {"CHF"}

SeqsUpTo(S, n) == UNION {[1..k -> S] : k \in 0..n}

BocLabels ==
    { <<" ", "mei", "yuan">>, <<"ou", "yuan">>, <<"jia", "na", "da", "yuan">> }

(* a table row with n td cells, whose first cell is the label *)
BocRow(label, n) ==
    SubSeq(<<label, <<"buy1">>, <<"buy2">>,
             <<" ">> \o Strip(label) \o <<"spot", " ">>,
             Strip(label) \o <<"cash">>>>, 1, n)

BocRows == {BocRow(l, n) : l \in BocLabels, n \in {0, 4, 5}}

BocDocs == SeqsUpTo(SeqsUpTo(BocRows, MaxRows), MaxTables)

BocResponses ==
    {[transport |-> t, status_code |-> 0, tables |-> <<>>] : t \in {"timeout", "error"}}
    \cup {[transport |-> "ok", status_code |-> st, tables |-> d] :
              st \in {200, 503}, d \in BocDocs}

CmbNames ==
    { Str(<<"mei", "yuan">>), Str(<<"ou", "yuan", "/", "ren", "min", "bi">>), None }

CmbItems ==
    { Dict([k \in {"ccyNbr", "rthOfr", "rtcOfr"} |->
              IF k = "ccyNbr" THEN n
              ELSE IF k = "rthOfr" THEN Str(<<"7.10">>) ELSE Str(<<"7.05">>)]) :
          n \in CmbNames }
    \cup { Dict([k \in {"ccyNbr"} |-> n]) : n \in CmbNames }
    \cup { Dict([k \in {"rthOfr"} |-> Str(<<"7.10">>)]), Str(<<"mei", "yuan">>) }

CmbJson ==
    { [kind |-> "invalid"], None, Str(<<"body">>), List(<<Str(<<"body">>)>>),
      Dict([k \in {"returnCode"} |-> Str(<<"SUC0000">>)]),
      Dict([k \in {"body"} |-> None]),
      Dict([k \in {"body"} |-> Dict([c \in {"USD"} |-> Str(<<"mei", "yuan">>)])]),
      Dict([k \in {"body"} |-> Str(<<"mei", "yuan">>)]) }
    \cup { Dict([k \in {"body"} |-> List(b)]) : b \in SeqsUpTo(CmbItems, MaxItems) }

CmbResponses ==
    {[transport |-> t, status_code |-> 0, json |-> [kind |-> "invalid"]] :
         t \in {"timeout", "error"}}
    \cup {[transport |-> "ok", status_code |-> st, json |-> j] :
              st \in {200, 404}, j \in CmbJson}

-----------------------------------------------------------------------------
(* The trend arithmetic of the metrics block.  Prices are whole numbers of  *)
(* price ticks; a quotient is kept exact, as a fraction in lowest terms.    *)

(* the frame yfinance answers a request (ticker, period, interval) with *)
DataFrame(request, prices) == [kind |-> "DataFrame", of |-> request, Close |-> prices]

(* DataFrame.empty *)
Empty(df) == Len(df.Close) = 0

(* Series.iloc[i], i counted from the end when negative *)
iloc(s, i) == IF i < 0 THEN s[Len(s) + 1 + i] ELSE s[i + 1]

Abs(n) == IF n < 0 THEN -n ELSE n

RECURSIVE Gcd(_, _)
Gcd(a, b) == IF b = 0 THEN a ELSE Gcd(b, a % b)

(* the fraction n/d, d # 0, in lowest terms with a positive denominator *)
Rat(n, d) ==
    LET g == Gcd(Abs(n), Abs(d))
        sg == IF d < 0 THEN -1 ELSE 1
    IN  [num |-> sg * (n \div g), den |-> sg * (d \div g)]

(* a / b *)
PyDiv(a, b) == IF b = 0 THEN Raised("ZeroDivisionError") ELSE Returned(Rat(a, b))

delta_percent_unguarded(delta, prev_price) ==
    LET q == PyDiv(delta, prev_price) IN
    IF q.kind = "raise" THEN q
    ELSE Returned(Rat(q.value.num * 100, q.value.den))

(* (delta / prev_price) * 100 if prev_price != 0 else 0 *)
delta_percent(delta, prev_price) ==
    IF prev_price # 0
    THEN LET q == PyDiv(delta, prev_price) IN
         IF q.kind = "raise" THEN q
         ELSE Returned(Rat(q.value.num * 100, q.value.den))
    ELSE Returned(Rat(0, 1))

current_price(hist_data) == IF ~Empty(hist_data) THEN iloc(hist_data.Close, -1) ELSE 0

prev_price(hist_data) == IF ~Empty(hist_data) THEN iloc(hist_data.Close, 0) ELSE 0

delta(hist_data) == current_price(hist_data) - prev_price(hist_data)

(* the four metric values, or the exception their evaluation raises *)
Trend(hist_data) ==
    LET pct == delta_percent(delta(hist_data), prev_price(hist_data)) IN
    IF pct.kind = "raise" THEN pct
    ELSE Returned([current   |-> current_price(hist_data),
                   reference |-> prev_price(hist_data),
                   deltaAbs  |-> delta(hist_data),
                   deltaPct  |-> pct.value])

Prices == 0..MaxPrice

SeriesTried == {DataFrame(<<"CNY=X", "5d", "2m">>, p) : p \in SeqsUpTo(Prices, MaxLen)}

-----------------------------------------------------------------------------
(* The script, run once per cycle for each browser session.                *)

currencies ==
    [c \in Codes |->
        CASE c = "EUR" -> [yf |-> "EURCNY=X", name |-> "Euro"]
          [] c = "USD" -> [yf |-> "CNY=X",    name |-> "US Dollar"]
          [] c = "HKD" -> [yf |-> "HKDCNY=X", name |-> "Hong Kong Dollar"]
          [] c = "GBP" -> [yf |-> "GBPCNY=X", name |-> "British Pound"]
          [] c = "JPY" -> [yf |-> "JPYCNY=X", name |-> "Japanese Yen"]]

RangeNames == {"1h", "24h", "48h", "7d", "1m"}

time_ranges ==
    [r \in RangeNames |->
        CASE r = "1h"  -> [period |-> "1d",  interval |-> "1m"]
          [] r = "24h" -> [period |-> "5d",  interval |-> "1m"]
          [] r = "48h" -> [period |-> "5d",  interval |-> "2m"]
          [] r = "7d"  -> [period |-> "1mo", interval |-> "15m"]
          [] r = "1m"  -> [period |-> "3mo", interval |-> "60m"]]

(* st.cache_data(ttl=60) *)
TTL == 60

(* time.sleep(10) *)
SleepSecs == 10

Unset == [kind |-> "unset"]

Blank == [kind |-> "blank"]

NoCalls == [get_history |-> 0, yf |-> 0, boc |-> 0, cmb |-> 0]

(* The namespace of a new run of the script: the widget values cur, rng,   *)
(* auto are the session's, every script variable is unbound and the page   *)
(* is empty.  `abandoned` records that the replaced run r had its time     *)
(* series but not yet both bank quotes.                                    *)
FreshRunKeepingLocals(r, cur, rng, auto) ==
    [r EXCEPT !.selected_currency = cur, !.selected_range = rng, !.auto = auto,
              !.pc = "widgets", !.run = r.run + 1, !.wake = 0,
              !.calls = NoCalls, !.page = Blank,
              !.abandoned = r.pc \in {"boc", "cmb"}]

FreshRun(r, cur, rng, auto) ==
    [selected_currency |-> cur, selected_range |-> rng, auto |-> auto,
     pc |-> "widgets", run |-> r.run + 1, wake |-> 0,
     hist_data |-> Unset, hist_from |-> Unset,
     boc_rate |-> Unset, boc_from |-> Unset,
     cmb_rate |-> Unset, cmb_from |-> Unset,
     calls |-> NoCalls, page |-> Blank, abandoned |-> r.pc \in {"boc", "cmb"}]

(* the first run of a session: the radios' and the checkbox's defaults *)
FirstRun ==
    [selected_currency |-> "EUR", selected_range |-> "48h", auto |-> TRUE,
     pc |-> "widgets", run |-> 0, wake |-> 0,
     hist_data |-> Unset, hist_from |-> Unset,
     boc_rate |-> Unset, boc_from |-> Unset,
     cmb_rate |-> Unset, cmb_from |-> Unset,
     calls |-> NoCalls, page |-> Blank, abandoned |-> FALSE]

selected_currency_shared(s) == sess[1].selected_currency

(* the Currency radio's value in session s *)
selected_currency(s) == sess[s].selected_currency

(* currency_info['yf'] *)
ticker_symbol(s) == currencies[selected_currency(s)].yf

(* the arguments of the get_history call of line 110 *)
HistArgs(s) ==
    <<ticker_symbol(s), time_ranges[sess[s].selected_range].period,
      time_ranges[sess[s].selected_range].interval>>

CacheKeyNoInterval(ticker, period, interval) == <<ticker, period>>

(* the key st.cache_data files a call's result under: the arguments *)
CacheKey(ticker, period, interval) == <<ticker, period, interval>>

(* the entries of the cache a call at time t may still be answered from *)
FreshEntries(key, t) == {e \in cache : e.key = key /\ t - e.stored < TTL}

(* what yf.Ticker(ticker).history(period, interval) can do: answer with a  *)
(* frame, possibly empty, for the request, or raise                        *)
YfOutcomes(request) ==
    {Returned(DataFrame(request, p)) : p \in {<<>>, <<2, 3>>}}
    \cup {Raised("YFException")}

(* the rows of the BOC page and the records of the CMB feed for a code *)
BocPage == <<[i \in 1..5 |->
    LET c == SetToSeq(Codes)[i]
    IN  <<currency_map[c].chars, <<"buy1">>, <<"buy2">>, <<c, "spot">>, <<c, "cash">>>>]>>

CmbFeed ==
    Dict([k \in {"body"} |-> List([i \in 1..5 |->
        LET c == SetToSeq(Codes)[i]
        IN  Dict([f \in {"ccyNbr", "rthOfr", "rtcOfr"} |->
                IF f = "ccyNbr" THEN currency_map[c]
                ELSE IF f = "rthOfr" THEN Str(<<c, "spot">>) ELSE Str(<<c, "cash">>)])])])

BocLive ==
    { [transport |-> "timeout", status_code |-> 0, tables |-> <<>>],
      [transport |-> "ok", status_code |-> 200, tables |-> BocPage] }

CmbLive ==
    { [transport |-> "timeout", status_code |-> 0, json |-> [kind |-> "invalid"]],
      [transport |-> "ok", status_code |-> 200, json |-> CmbFeed] }

Init ==
    /\ now = 0
    /\ cache = {}
    /\ sess = <<FirstRun>>
    /\ arg = [fn |-> "app"]
    /\ ret = Pending

(* two sessions whose users have each picked a currency and unticked Auto *)
(* Refresh, at the start of the run that follows                          *)
InitTwo ==
    /\ now = 0
    /\ cache = {}
    /\ \E c1, c2 \in Codes :
        sess = <<FreshRun(FirstRun, c1, "48h", FALSE), FreshRun(FirstRun, c2, "48h", FALSE)>>
    /\ arg = [fn |-> "app"]
    /\ ret = Pending

(* lines 82-96: the widgets are read; with Auto Refresh ticked the script  *)
(* goes to sleep, otherwise it goes on to the fetches                      *)
Widgets(s) ==
    /\ sess[s].pc = "widgets"
    /\ sess' = [sess EXCEPT ![s] =
            IF sess[s].auto
            THEN [@ EXCEPT !.pc = "sleep", !.wake = now + SleepSecs]
            ELSE [@ EXCEPT !.pc = "hist"]]
    /\ UNCHANGED <<now, cache, arg, ret>>

(* lines 96-97: the sleep is over and st.rerun() ends this run and starts  *)
(* the next                                                                *)
SleepRerun(s) ==
    /\ sess[s].pc = "sleep"
    /\ now >= sess[s].wake
    /\ sess[s].run < MaxRuns
    /\ sess' = [sess EXCEPT ![s] =
            FreshRun(@, @.selected_currency, @.selected_range, @.auto)]
    /\ UNCHANGED <<now, cache, arg, ret>>

(* time passes *)
Tick ==
    /\ now + TickSecs <= MaxNow
    /\ now' = now + TickSecs
    /\ UNCHANGED <<cache, sess, arg, ret>>

(* line 110: get_history behind st.cache_data.  A fresh entry answers the  *)
(* call; otherwise the function body runs, and its frame is stored unless  *)
(* it raised, in which case the exception ends the run.                    *)
GetHistory(s) ==
    /\ sess[s].pc = "hist"
    /\ LET a    == HistArgs(s)
           key  == CacheKey(a[1], a[2], a[3])
           hits == FreshEntries(key, now)
           here == [sess[s] EXCEPT !.calls.get_history = @ + 1]
       IN  IF hits # {}
           THEN \E e \in hits :
                /\ sess' = [sess EXCEPT ![s] =
                        [here EXCEPT !.hist_data = e.value,
                                     !.hist_from = [via |-> "cache", run |-> here.run],
                                     !.pc = "boc"]]
                /\ cache' = cache
           ELSE \E out \in YfOutcomes(a) :
                IF out.kind = "return"
                THEN /\ sess' = [sess EXCEPT ![s] =
                            [here EXCEPT !.hist_data = out.value,
                                         !.hist_from = [via |-> "upstream", run |-> here.run],
                                         !.calls.yf = @ + 1,
                                         !.pc = "boc"]]
                     /\ cache' = {e \in cache : e.key # key}
                                 \cup {[key |-> key, stored |-> now, value |-> out.value]}
                ELSE /\ sess' = [sess EXCEPT ![s] =
                            [here EXCEPT !.calls.yf = @ + 1, !.pc = "error"]]
                     /\ cache' = cache
    /\ UNCHANGED <<now, arg, ret>>

(* line 114 *)
FetchBoc(s) ==
    /\ sess[s].pc = "boc"
    /\ \E response \in BocLive :
        LET out  == get_boc_rates(response, selected_currency(s))
            here == [sess[s] EXCEPT !.calls.boc = @ + 1]
        IN  sess' = [sess EXCEPT ![s] =
                IF out.kind = "return"
                THEN [here EXCEPT !.boc_rate = out.value,
                                  !.boc_from = [via |-> "upstream", run |-> here.run],
                                  !.pc = "cmb"]
                ELSE [here EXCEPT !.pc = "error"]]
    /\ UNCHANGED <<now, cache, arg, ret>>

(* line 115 *)
FetchCmb(s) ==
    /\ sess[s].pc = "cmb"
    /\ \E response \in CmbLive :
        LET out  == get_cmb_rates(response, selected_currency(s))
            here == [sess[s] EXCEPT !.calls.cmb = @ + 1]
        IN  sess' = [sess EXCEPT ![s] =
                IF out.kind = "return"
                THEN [here EXCEPT !.cmb_rate = out.value,
                                  !.cmb_from = [via |-> "upstream", run |-> here.run],
                                  !.pc = "render"]
                ELSE [here EXCEPT !.pc = "error"]]
    /\ UNCHANGED <<now, cache, arg, ret>>

(* f"{rate['spot_sell']} / {rate['cash_sell']}" if rate else "N/A" *)
QuoteText(rate) ==
    IF Truthy(rate)
    THEN Str(rate.items["spot_sell"].chars \o <<" / ">> \o rate.items["cash_sell"].chars)
    ELSE Str(<<"N/A">>)

(* lines 118-161: the three metrics and the chart *)
Render(s) ==
    /\ sess[s].pc = "render"
    /\ LET r == sess[s]
           t == Trend(r.hist_data)
       IN  sess' = [sess EXCEPT ![s] =
                IF t.kind = "return"
                THEN [r EXCEPT !.page = [kind  |-> "page",
                                         live  |-> t.value,
                                         boc   |-> QuoteText(r.boc_rate),
                                         cmb   |-> QuoteText(r.cmb_rate),
                                         chart |-> ~Empty(r.hist_data)],
                               !.pc = "done"]
                ELSE [r EXCEPT !.pc = "error"]]
    /\ UNCHANGED <<now, cache, arg, ret>>

(* The user changes a widget: the session's run, wherever it is, is        *)
(* replaced by a new one that reads the new value.                         *)
SelectCurrency(s, c) ==
    /\ c # sess[s].selected_currency
    /\ sess[s].run < MaxRuns
    /\ sess' = [sess EXCEPT ![s] = FreshRun(@, c, @.selected_range, @.auto)]
    /\ UNCHANGED <<now, cache, arg, ret>>

SelectRange(s, r) ==
    /\ r # sess[s].selected_range
    /\ sess[s].run < MaxRuns
    /\ sess' = [sess EXCEPT ![s] = FreshRun(@, @.selected_currency, r, @.auto)]
    /\ UNCHANGED <<now, cache, arg, ret>>

ToggleAuto(s) ==
    /\ sess[s].run < MaxRuns
    /\ sess' = [sess EXCEPT ![s] =
            FreshRun(@, @.selected_currency, @.selected_range, ~@.auto)]
    /\ UNCHANGED <<now, cache, arg, ret>>

SessionIds == {1, 2}

Next ==
    \/ Tick
    \/ \E s \in SessionIds : s \in DOMAIN sess /\ Widgets(s)
    \/ \E s \in SessionIds : s \in DOMAIN sess /\ SleepRerun(s)
    \/ \E s \in SessionIds : s \in DOMAIN sess /\ GetHistory(s)
    \/ \E s \in SessionIds : s \in DOMAIN sess /\ FetchBoc(s)
    \/ \E s \in SessionIds : s \in DOMAIN sess /\ FetchCmb(s)
    \/ \E s \in SessionIds : s \in DOMAIN sess /\ Render(s)
    \/ \E s \in SessionIds : s \in DOMAIN sess /\ ToggleAuto(s)
    \/ \E s \in SessionIds, c \in Codes : s \in DOMAIN sess /\ SelectCurrency(s, c)
    \/ \E s \in SessionIds, r \in RangeNames : s \in DOMAIN sess /\ SelectRange(s, r)

Spec == Init /\ [][Next]_vars

(* the cycles of two sessions, their users idle *)
NextTwo ==
    \/ \E s \in SessionIds : s \in DOMAIN sess /\ Widgets(s)
    \/ \E s \in SessionIds : s \in DOMAIN sess /\ GetHistory(s)
    \/ \E s \in SessionIds : s \in DOMAIN sess /\ FetchBoc(s)
    \/ \E s \in SessionIds : s \in DOMAIN sess /\ FetchCmb(s)
    \/ \E s \in SessionIds : s \in DOMAIN sess /\ Render(s)

SpecTwo == InitTwo /\ [][NextTwo]_vars

-----------------------------------------------------------------------------
(* A single call of one function on one input: arg is the call, ret its    *)
(* outcome.  The sessions play no part in these specifications.            *)

NoSessions ==
    /\ now = 0
    /\ cache = {}
    /\ sess = <<>>

InitBoc ==
    /\ NoSessions
    /\ arg \in {[fn |-> "get_boc_rates", response |-> r, currency_code |-> c] :
                    r \in BocResponses, c \in CodesTried}
    /\ ret = Pending

CallBoc ==
    /\ arg.fn = "get_boc_rates"
    /\ ret = Pending
    /\ ret' = get_boc_rates(arg.response, arg.currency_code)
    /\ UNCHANGED <<now, cache, sess, arg>>

SpecBoc == InitBoc /\ [][CallBoc]_vars

InitCmb ==
    /\ NoSessions
    /\ arg \in {[fn |-> "get_cmb_rates", response |-> r, currency_code |-> c] :
                    r \in CmbResponses, c \in CodesTried}
    /\ ret = Pending

CallCmb ==
    /\ arg.fn = "get_cmb_rates"
    /\ ret = Pending
    /\ ret' = get_cmb_rates(arg.response, arg.currency_code)
    /\ UNCHANGED <<now, cache, sess, arg>>

SpecCmb == InitCmb /\ [][CallCmb]_vars

InitTrend ==
    /\ NoSessions
    /\ arg \in {[fn |-> "Trend", hist_data |-> d] : d \in SeriesTried}
    /\ ret = Pending

CallTrend ==
    /\ arg.fn = "Trend"
    /\ ret = Pending
    /\ ret' = Trend(arg.hist_data)
    /\ UNCHANGED <<now, cache, sess, arg>>

SpecTrend == InitTrend /\ [][CallTrend]_vars

SpecBank == (InitBoc \/ InitCmb) /\ [][CallBoc \/ CallCmb]_vars

-----------------------------------------------------------------------------
(* Properties of the single calls.                                         *)

BocCalled == arg.fn = "get_boc_rates" /\ ret # Pending

CmbCalled == arg.fn = "get_cmb_rates" /\ ret # Pending

(* some row of the document has a first cell containing the currency's name *)
BocNameListed ==
    \E t \in 1..Len(arg.response.tables) :
        \E r \in 1..Len(arg.response.tables[t]) :
            LET cols == arg.response.tables[t][r] IN
            Len(cols) > 0 /\ Contains(currency_map[arg.currency_code].chars, cols[1])

(* every row naming the currency is too short to hold columns 4 and 5 *)
BocTableMalformed ==
    \A t \in 1..Len(arg.response.tables) :
        \A r \in 1..Len(arg.response.tables[t]) :
            LET cols == arg.response.tables[t][r] IN
            (Len(cols) > 0 /\ Contains(currency_map[arg.currency_code].chars, cols[1]))
                => Len(cols) < 5

(* C3: get_boc_rates never raises, and returns None when the transport     *)
(* fails, when the status is not 200 whatever the body holds, when the     *)
(* document has no table or only malformed rows for the currency, and when *)
(* no row's first cell contains the currency's name.                       *)
ClaimC3 ==
    (BocCalled /\ arg.currency_code \in Codes) =>
        /\ ret.kind = "return"
        /\ ( \/ arg.response.transport # "ok"
             \/ arg.response.status_code # 200
             \/ arg.response.tables = <<>>
             \/ BocTableMalformed
             \/ ~BocNameListed ) => ret.value = None

(* some record of the body list has a name field containing the currency's *)
(* name                                                                    *)
CmbRecordMatches ==
    /\ arg.currency_code \in Codes
    /\ arg.response.json.kind = "dict"
    /\ "body" \in DOMAIN arg.response.json.items
    /\ LET body == arg.response.json.items["body"] IN
       /\ body.kind = "list"
       /\ \E i \in 1..Len(body.elems) :
            LET item == body.elems[i] IN
            /\ item.kind = "dict"
            /\ "ccyNbr" \in DOMAIN item.items
            /\ item.items["ccyNbr"].kind = "str"
            /\ Contains(currency_map[arg.currency_code].chars, item.items["ccyNbr"].chars)

(* C4: get_cmb_rates never raises; it returns None when the transport      *)
(* fails, the status is not 200, the body is not JSON, the JSON has no     *)
(* `body` key, or no record's name contains the currency's name; it        *)
(* returns a quote pair only when a record of the `body` list matches.     *)
TheoremC4 ==
    CmbCalled =>
        /\ ret.kind = "return"
        /\ ( \/ arg.response.transport # "ok"
             \/ arg.response.status_code # 200
             \/ arg.response.json.kind = "invalid"
             \/ (arg.response.json.kind = "dict"
                   /\ "body" \notin DOMAIN arg.response.json.items)
             \/ ~CmbRecordMatches ) => ret.value = None
        /\ ret.kind = "return" /\ ret.value # None =>
             /\ ret.value.kind = "dict"
             /\ arg.response.transport = "ok"
             /\ arg.response.status_code = 200
             /\ CmbRecordMatches

(* a 200 response whose JSON object has no `body` key was answered by None *)
WitnessC4 ==
    /\ CmbCalled
    /\ arg.currency_code \in Codes
    /\ arg.response.transport = "ok"
    /\ arg.response.status_code = 200
    /\ arg.response.json.kind = "dict"
    /\ "body" \notin DOMAIN arg.response.json.items
    /\ ret = Returned(None)

(* C5: a bank provider called with a currency code outside the supported   *)
(* set signals a failure to its caller, and does not return the None that  *)
(* an upstream failure produces.                                           *)
ClaimC5 ==
    ((BocCalled \/ CmbCalled) /\ arg.currency_code \notin Codes) =>
        /\ ret.kind = "raise"
        /\ ret # Returned(None)

(* C6: the trend of an empty series is all zero; otherwise current is the  *)
(* last price, reference the first, deltaAbs their difference and deltaPct *)
(* deltaAbs / reference * 100, or 0 when reference is 0; no series makes   *)
(* the computation divide by zero.                                         *)
TheoremC6 ==
    (arg.fn = "Trend" /\ ret # Pending) =>
        LET s == arg.hist_data.Close IN
        /\ ret.kind = "return"
        /\ ret.kind = "return" =>
            LET t == ret.value IN
            IF s = <<>>
            THEN t.current = 0 /\ t.reference = 0 /\ t.deltaAbs = 0 /\ t.deltaPct.num = 0
            ELSE /\ t.current = s[Len(s)]
                 /\ t.reference = s[1]
                 /\ t.deltaAbs = s[Len(s)] - s[1]
                 /\ t.deltaPct.den > 0
                 /\ IF s[1] = 0 THEN t.deltaPct.num = 0
                    ELSE t.deltaPct.num * s[1] = (s[Len(s)] - s[1]) * 100 * t.deltaPct.den

(* a series that starts at price 0 and ends above it was given a trend *)
WitnessC6 ==
    /\ arg.fn = "Trend"
    /\ ret # Pending
    /\ Len(arg.hist_data.Close) >= 2
    /\ arg.hist_data.Close[1] = 0
    /\ arg.hist_data.Close[Len(arg.hist_data.Close)] > 0
    /\ ret.kind = "return"

-----------------------------------------------------------------------------
(* Properties of the cycles.                                               *)

(* the run of session s has ended, by rendering or by an exception *)
Ended(s) == sess[s].pc \in {"done", "error"}

IsQuoteOrNone(v) == v.kind \in {"dict", "None"}

(* C1: whatever each provider does, a cycle that ends has called each      *)
(* provider once and holds a series (possibly empty) and an entry (quote   *)
(* pair or None) for both banks; no provider's failure aborts it.          *)
ClaimC1 ==
    \A s \in DOMAIN sess :
        Ended(s) =>
            /\ sess[s].pc = "done"
            /\ sess[s].calls.get_history = 1
            /\ sess[s].calls.boc = 1
            /\ sess[s].calls.cmb = 1
            /\ sess[s].hist_data.kind = "DataFrame"
            /\ IsQuoteOrNone(sess[s].boc_rate)
            /\ IsQuoteOrNone(sess[s].cmb_rate)

(* C2: once get_history has been called in a run, the script holds a       *)
(* frame, an empty one when the upstream call failed, and goes on.         *)
ClaimC2 ==
    \A s \in DOMAIN sess :
        sess[s].calls.get_history = 1 =>
            /\ sess[s].hist_data.kind = "DataFrame"
            /\ sess[s].pc # "error"

(* C7: with Auto Refresh ticked, the pause of a cycle comes after the      *)
(* cycle has fetched and rendered.                                         *)
ClaimC7 ==
    \A s \in DOMAIN sess :
        (sess[s].auto /\ sess[s].pc = "sleep") =>
            /\ sess[s].page.kind = "page"
            /\ sess[s].calls.get_history = 1

(* the quote pair the page and the feed publish for a currency code *)
PublishedFor(c) ==
    Dict([k \in {"spot_sell", "cash_sell"} |->
            IF k = "spot_sell" THEN Str(<<c, "spot">>) ELSE Str(<<c, "cash">>)])

(* C8: in two cycles that run concurrently, what each holds was derived    *)
(* from answers for its own currency: the series is the one of its own     *)
(* ticker and each bank quote is the one published for its own code.       *)
TheoremC8 ==
    \A s \in DOMAIN sess :
        LET r == sess[s] IN
        /\ r.hist_data # Unset =>
                r.hist_data.of[1] = currencies[r.selected_currency].yf
        /\ r.boc_rate.kind = "dict" => r.boc_rate = PublishedFor(r.selected_currency)
        /\ r.cmb_rate.kind = "dict" => r.cmb_rate = PublishedFor(r.selected_currency)

(* two cycles for different currencies are both under way, each holding a  *)
(* series and a bank quote                                                 *)
WitnessC8 ==
    /\ DOMAIN sess = {1, 2}
    /\ sess[1].selected_currency # sess[2].selected_currency
    /\ sess[1].pc = "cmb" /\ sess[1].boc_rate.kind = "dict"
    /\ sess[2].pc = "render" /\ sess[2].cmb_rate.kind = "dict"
    /\ sess[1].hist_data.kind = "DataFrame"
    /\ sess[2].hist_data.kind = "DataFrame"

(* C9: whatever a cycle holds it got by a call of its own: the series by   *)
(* its own get_history call, answered for its own (symbol, period,         *)
(* interval) by the upstream or by the cache, the quotes by its own bank   *)
(* calls; the page shows these and nothing else.                           *)
TheoremC9 ==
    \A s \in DOMAIN sess :
        LET r == sess[s]
            k == <<currencies[r.selected_currency].yf,
                   time_ranges[r.selected_range].period,
                   time_ranges[r.selected_range].interval>>
        IN
        /\ r.hist_data # Unset =>
                /\ r.hist_from # Unset
                /\ r.hist_from.run = r.run
                /\ r.hist_data.of = k
                /\ r.calls.get_history = 1
        /\ r.boc_rate # Unset =>
                r.boc_from # Unset /\ r.boc_from.run = r.run /\ r.calls.boc = 1
        /\ r.cmb_rate # Unset =>
                r.cmb_from # Unset /\ r.cmb_from.run = r.run /\ r.calls.cmb = 1
        /\ r.page # Blank =>
                /\ r.pc = "done"
                /\ r.page.boc = QuoteText(r.boc_rate)
                /\ r.page.cmb = QuoteText(r.cmb_rate)
                /\ r.page.live.current =
                      (IF r.hist_data.Close = <<>> THEN 0
                       ELSE r.hist_data.Close[Len(r.hist_data.Close)])

(* a cycle that replaced one abandoned between its provider calls has      *)
(* rendered                                                                *)
WitnessC9 ==
    \E s \in DOMAIN sess : sess[s].abandoned /\ sess[s].pc = "done"

(* the step of session s is its get_history call *)
GetHistoryStep(s) ==
    /\ sess[s].pc = "hist"
    /\ sess'[s].run = sess[s].run
    /\ sess'[s].pc # "hist"

(* C10: a get_history call whose (symbol, period, interval) has an entry   *)
(* younger than 60 seconds returns that entry and calls no upstream; any   *)
(* other call makes one upstream call and, when that answers, stores the   *)
(* answer under its key at the present time; what a call returns is never  *)
(* an entry of another key.                                                *)
TheoremC10 ==
    [][\A s \in DOMAIN sess :
        GetHistoryStep(s) =>
            LET r == sess[s]
                k == <<currencies[r.selected_currency].yf,
                       time_ranges[r.selected_range].period,
                       time_ranges[r.selected_range].interval>>
                young == {e \in cache : e.key = k /\ now - e.stored < 60}
            IN
            /\ IF young # {}
               THEN /\ sess'[s].calls.yf = r.calls.yf
                    /\ \E e \in young : sess'[s].hist_data = e.value
                    /\ cache' = cache
               ELSE /\ sess'[s].calls.yf = r.calls.yf + 1
                    /\ sess'[s].pc # "error" =>
                          /\ [key |-> k, stored |-> now, value |-> sess'[s].hist_data]
                                \in cache'
                          /\ \A e \in cache' : e.key = k => e.stored = now
            /\ sess'[s].hist_data # Unset => sess'[s].hist_data.of = k
            /\ \A e \in cache' : e.value.of = e.key
      ]_vars

(* a get_history call was answered from the cache, with no upstream call *)
WitnessC10 ==
    \E s \in DOMAIN sess :
        /\ sess[s].hist_from # Unset
        /\ sess[s].hist_from.via = "cache"
        /\ sess[s].calls.yf = 0
        /\ sess[s].calls.get_history = 1

====
